---- MODULE Spec2Model ----
(***************************************************************************)
(* A model of project-code.py, the Streamlit dashboard over four remote    *)
(* CSV datasets: the cached dataset loaders, the geocoding resolver        *)
(* get_country_coordinates, the year/country filter that feeds the map,    *)
(* the (Year, Country) aggregation that feeds the line chart, and the two  *)
(* top-10 selections (consumption histogram, obesity chart).               *)
(*                                                                         *)
(* A DataFrame is a sequence of rows (records).  A cell that pandas may    *)
(* hold as a number, as a string or as NaN is a record [kind, n, s]:       *)
(*   kind = "num": the number n;  kind = "str": the characters s;          *)
(*   kind = "nan": a missing value (NaN / None).                           *)
(***************************************************************************)
EXTENDS Integers, Sequences, FiniteSets

VARIABLES
    \* get_country_coordinates (one call)
    country_list,      \* the argument
    idx,               \* number of loop iterations completed
    coordinates,       \* the list built by the loop
    geo_pc,            \* "loop" | "returned" | "raised"
    \* st.cache_data and the remote CSV files
    cache,             \* loader -> [present, value]
    remote,            \* loader -> version of the remote CSV
    fetches,           \* loader -> number of successful pd.read_csv
    outcome,           \* result of the last loader call of a render cycle
    \* one render cycle of the script
    dataset_choice,    \* st.radio, line 64
    data,              \* the loaded table
    year,              \* st.slider, line 96
    visualization_choice, \* st.radio, line 121
    filtered_data,     \* lines 104-118
    layer_data,        \* data= of pdk.Layer, lines 128-148
    line_graph_data,   \* lines 166-168 / 182-184
    top_5,             \* line 205
    top_10_countries,  \* line 229
    render_pc          \* "idle" | "rendered" | "error"

geoVars   == <<country_list, idx, coordinates, geo_pc>>
cacheVars == <<cache, remote, fetches, outcome>>
viewVars  == <<dataset_choice, data, year, visualization_choice, filtered_data,
               layer_data, line_graph_data, top_5, top_10_countries, render_pc>>
vars      == <<geoVars, cacheVars, viewVars>>

-----------------------------------------------------------------------------
(* Cells *)

NaN == [kind |-> "nan", n |-> 0, s |-> <<>>]

Num(n) == [kind |-> "num", n |-> n, s |-> <<>>]

Str(s) == [kind |-> "str", n |-> 0, s |-> s]

IsNaN(c) == c.kind = "nan"

Min2(a, b) == IF a <= b THEN a ELSE b

-----------------------------------------------------------------------------
(* get_country_coordinates, lines 48-58 *)

\* Bound: longest argument list of the resolver that is explored.
MaxList == 3

\* Names handed to the resolver; the last one is no place on Earth.
GeoNames == {"India", "China", "Atlantis"}

\* What Nominatim answers for a name it knows: (latitude, longitude).
Gazetteer(country) ==
    CASE country = "United States" -> <<39, -100>>
      [] country = "Argentina" -> <<-34, -64>>
      [] country = "Pakistan" -> <<30, 70>>
      [] country = "Germany" -> <<51, 10>>
      [] country = "India" -> <<22, 79>>
      [] country = "Brazil" -> <<-10, -53>>
      [] country = "China" -> <<35, 104>>
      [] country = "Russia" -> <<64, 97>>
      [] country = "Mexico" -> <<23, -102>>
      [] country = "Spain" -> <<40, -4>>
      [] country = "Australia" -> <<-25, 134>>
      [] country = "Kazakhstan" -> <<48, 67>>
      [] country = "Saudi Arabia" -> <<25, 45>>
      [] OTHER -> <<0, 0>>

NoLocation == [found |-> FALSE, latitude |-> 0, longitude |-> 0]

Location(country) ==
    [found |-> TRUE, latitude |-> Gazetteer(country)[1],
     longitude |-> Gazetteer(country)[2]]

\* The values geolocator.geocode(country) can return (line 53): a Location,
\* or None when the service finds nothing.  A name the service does not know
\* is never found; a name it knows may still come back empty.
GeocodeReturns(country) ==
    IF country = "Atlantis" THEN {NoLocation}
    ELSE {Location(country), NoLocation}

\* Lines 54-57, with the bug of keeping a coordinate the lookup did not give.
PartialCoordinateRow(country, location) ==
    IF location.found
    THEN [Country |-> country, Latitude |-> Num(location.latitude),
          Longitude |-> Num(location.longitude)]
    ELSE [Country |-> country, Latitude |-> Num(0), Longitude |-> NaN]

\* Lines 54-57: the tuple appended for one country.
CoordinateRow(country, location) ==
    IF location.found
    THEN [Country |-> country, Latitude |-> Num(location.latitude),
          Longitude |-> Num(location.longitude)]
    ELSE [Country |-> country, Latitude |-> NaN, Longitude |-> NaN]

\* One iteration of the loop (lines 52-57) whose lookup returns.
GeoLookup ==
    /\ geo_pc = "loop"
    /\ idx < Len(country_list)
    /\ \E location \in GeocodeReturns(country_list[idx + 1]) :
          coordinates' = Append(coordinates,
                                CoordinateRow(country_list[idx + 1], location))
    /\ idx' = idx + 1
    /\ UNCHANGED <<country_list, geo_pc>>

\* One iteration whose lookup raises (GeocoderTimedOut, GeocoderUnavailable,
\* GeocoderServiceError): line 53 is in no try block, so the exception leaves
\* the function and the list built so far is lost.
GeoLookupRaises ==
    /\ geo_pc = "loop"
    /\ idx < Len(country_list)
    /\ geo_pc' = "raised"
    /\ UNCHANGED <<country_list, idx, coordinates>>

\* Line 58: the loop is over, the DataFrame is returned.
GeoReturn ==
    /\ geo_pc = "loop"
    /\ idx = Len(country_list)
    /\ geo_pc' = "returned"
    /\ UNCHANGED <<country_list, idx, coordinates>>

RECURSIVE SeqsUpTo(_, _)
SeqsUpTo(S, n) ==
    IF n = 0 THEN {<<>>}
    ELSE LET shorter == SeqsUpTo(S, n - 1)
         IN  shorter \cup {Append(q, x) : q \in shorter, x \in S}

\* Placeholders of the parts a specification does not exercise.
NoTable == <<>>

ViewIdle ==
    /\ dataset_choice = "none"
    /\ data = NoTable
    /\ year = 0
    /\ visualization_choice = "none"
    /\ filtered_data = NoTable
    /\ layer_data = NoTable
    /\ line_graph_data = NoTable
    /\ top_5 = NoTable
    /\ top_10_countries = NoTable
    /\ render_pc = "idle"

GeoIdle ==
    /\ country_list = <<>>
    /\ idx = 0
    /\ coordinates = <<>>
    /\ geo_pc = "idle"

Loaders == {"load_meat_data", "load_agriculture_data",
            "load_consumption_data", "load_obesity_data"}

NotCached == [present |-> FALSE, value |-> [columns |-> <<>>, rows |-> <<>>]]

CacheIdle ==
    /\ cache = [l \in Loaders |-> NotCached]
    /\ remote = [l \in Loaders |-> 1]
    /\ fetches = [l \in Loaders |-> 0]
    /\ outcome = [loader |-> "none", status |-> "none", source |-> "none",
                  value |-> NotCached.value]

\* A call get_country_coordinates(country_list) on any list of names.
InitGeo ==
    /\ country_list \in SeqsUpTo(GeoNames, MaxList)
    /\ idx = 0
    /\ coordinates = <<>>
    /\ geo_pc = "loop"
    /\ CacheIdle
    /\ ViewIdle

NextGeo ==
    \/ GeoLookup /\ UNCHANGED <<cacheVars, viewVars>>
    \/ GeoLookupRaises /\ UNCHANGED <<cacheVars, viewVars>>
    \/ GeoReturn /\ UNCHANGED <<cacheVars, viewVars>>

SpecGeo == InitGeo /\ [][NextGeo]_vars

\* C2: get_country_coordinates builds one row per input name, in input order
\* (duplicates included); a row holds either both coordinates of the looked-up
\* place or the missing value in both, never in exactly one; a name the
\* service cannot find gets the missing value in both; the returned table has
\* as many rows as the input list.
C2_OneRowPerName ==
    /\ Len(coordinates) = idx
    /\ idx <= Len(country_list)
    /\ \A i \in 1..Len(coordinates) :
          LET row == coordinates[i] IN
          /\ row.Country = country_list[i]
          /\ IsNaN(row.Latitude) <=> IsNaN(row.Longitude)
          /\ ~IsNaN(row.Latitude) =>
                /\ row.Latitude = Num(Gazetteer(row.Country)[1])
                /\ row.Longitude = Num(Gazetteer(row.Country)[2])
          /\ row.Country = "Atlantis" => IsNaN(row.Latitude) /\ IsNaN(row.Longitude)
    /\ geo_pc = "returned" => Len(coordinates) = Len(country_list)

\* A returned table for a list with a repeated name, holding a resolved row and
\* a row of missing coordinates.
C2_Witness ==
    /\ geo_pc = "returned"
    /\ Len(country_list) = 3
    /\ country_list[1] = country_list[3]
    /\ ~IsNaN(coordinates[1].Latitude)
    /\ IsNaN(coordinates[2].Latitude)
    /\ IsNaN(coordinates[2].Longitude)

\* C3: a geocoding lookup that fails or times out never raises an error to the
\* caller of get_country_coordinates (the country would get a row of missing
\* coordinates and the loop would go on).
C3_FailureNeverRaised == geo_pc # "raised"

-----------------------------------------------------------------------------
(* The dataset loaders under st.cache_data, lines 8-45 *)

\* Bound: number of successive contents of a remote CSV file.
MaxVersions == 2

Choices == {"Meat Production", "Agricultural Land Use",
            "Meat Consumption", "Obesity"}

\* Lines 72-73, 83-84, 198-199, 212-213: the loader a dataset choice calls.
LoaderOf(choice) ==
    CASE choice = "Meat Production" -> "load_meat_data"
      [] choice = "Agricultural Land Use" -> "load_agriculture_data"
      [] choice = "Meat Consumption" -> "load_consumption_data"
      [] OTHER -> "load_obesity_data"

\* The header line of each remote file.
RawColumns(l) ==
    CASE l = "load_meat_data" ->
            <<"Entity", "Code", "Year",
              "Meat, total | 00001765 || Production | 005510 || tonnes">>
      [] l = "load_agriculture_data" ->
            <<"Entity", "Code", "Year", "Land use: Agriculture">>
      [] l = "load_consumption_data" ->
            <<"\"Country\"", " \"Kilograms/capita\"">>
      [] OTHER ->
            <<"Entity", "Code", "Year",
              "Prevalence of obesity among adults, BMI >= 30 (crude estimate) (%) - Sex: both sexes - Age group: 18+  years">>

\* pd.read_csv(url) when the file holds its v-th content.
RawCsv(l, v) == [columns |-> RawColumns(l), rows |-> <<<<"India", 2000 + v, v>>>>]

\* df.rename(columns=...) of lines 13-16, 24-27, 43-44 and the header clean-up
\* of line 35, on one column name.
CanonicalName(l, name) ==
    CASE l # "load_consumption_data" /\ name = "Entity" -> "Country"
      [] l = "load_meat_data"
         /\ name = "Meat, total | 00001765 || Production | 005510 || tonnes"
            -> "Meat_Production"
      [] l = "load_agriculture_data" /\ name = "Land use: Agriculture"
            -> "Agricultural_Area"
      [] l = "load_obesity_data"
         /\ name = "Prevalence of obesity among adults, BMI >= 30 (crude estimate) (%) - Sex: both sexes - Age group: 18+  years"
            -> "Obesity"
      [] l = "load_consumption_data" /\ name = "\"Country\"" -> "Country"
      [] l = "load_consumption_data" /\ name = " \"Kilograms/capita\""
            -> "Kilograms/capita"
      [] OTHER -> name

\* The body of a loader applied to the file it read.
Load(l, raw) ==
    [columns |-> [i \in 1..Len(raw.columns) |-> CanonicalName(l, raw.columns[i])],
     rows |-> raw.rows]

\* st.cache_data with the bug of never consulting the stored value.
NeverCachedEntry(l) == NotCached

\* st.cache_data (lines 9, 20, 31, 39): the entry a call of loader l looks up.
\* The loaders take no argument, so each has one entry.
CachedEntry(l) == cache[l]

\* A render cycle calls the loader of the chosen dataset and finds its value
\* in the cache: nothing is fetched, a copy of the stored table is returned.
CallLoaderCached(choice) ==
    LET l == LoaderOf(choice) IN
    /\ CachedEntry(l).present
    /\ outcome' = [loader |-> l, status |-> "ok", source |-> "cache",
                   value |-> CachedEntry(l).value]
    /\ UNCHANGED <<cache, remote, fetches>>

\* A render cycle calls a loader whose value is not cached and the fetch
\* succeeds: the table is stored and returned.
CallLoaderFetch(choice) ==
    LET l == LoaderOf(choice)
        df == Load(l, RawCsv(l, remote[l]))
    IN  /\ ~CachedEntry(l).present
        /\ cache' = [cache EXCEPT ![l] = [present |-> TRUE, value |-> df]]
        /\ fetches' = [fetches EXCEPT ![l] = @ + 1]
        /\ outcome' = [loader |-> l, status |-> "ok", source |-> "fetch",
                       value |-> df]
        /\ UNCHANGED remote

\* A render cycle calls a loader whose value is not cached and pd.read_csv
\* raises: the exception ends the script run, nothing is stored.
CallLoaderFails(choice) ==
    LET l == LoaderOf(choice) IN
    /\ ~CachedEntry(l).present
    /\ outcome' = [loader |-> l, status |-> "error", source |-> "fetch",
                   value |-> NotCached.value]
    /\ UNCHANGED <<cache, remote, fetches>>

\* The file behind a URL is replaced by its next content.
RemoteChanges(l) ==
    /\ remote[l] < MaxVersions
    /\ remote' = [remote EXCEPT ![l] = @ + 1]
    /\ UNCHANGED <<cache, fetches, outcome>>

InitCache ==
    /\ cache = [l \in Loaders |-> NotCached]
    /\ remote = [l \in Loaders |-> 1]
    /\ fetches = [l \in Loaders |-> 0]
    /\ outcome = [loader |-> "none", status |-> "none", source |-> "none",
                  value |-> NotCached.value]
    /\ GeoIdle
    /\ ViewIdle

NextCache ==
    \/ \E choice \in Choices : CallLoaderCached(choice) /\ UNCHANGED <<geoVars, viewVars>>
    \/ \E choice \in Choices : CallLoaderFetch(choice) /\ UNCHANGED <<geoVars, viewVars>>
    \/ \E choice \in Choices : CallLoaderFails(choice) /\ UNCHANGED <<geoVars, viewVars>>
    \/ \E l \in Loaders : RemoteChanges(l) /\ UNCHANGED <<geoVars, viewVars>>

SpecCache == InitCache /\ [][NextCache]_vars

\* C4: each loader fetches at most once after its first successful fetch:
\* a loader has fetched successfully at most once, and exactly when its table
\* is cached; a call that returns a table returns the cached one; a failed
\* fetch leaves the loader uncached; and no step changes a cached table.
C4_FetchedOnce ==
    /\ [](/\ \A l \in Loaders :
               /\ fetches[l] <= 1
               /\ cache[l].present <=> fetches[l] = 1
          /\ outcome.status = "ok" =>
               /\ cache[outcome.loader].present
               /\ outcome.value = cache[outcome.loader].value
          /\ outcome.status = "error" => ~cache[outcome.loader].present)
    /\ [][\A l \in Loaders : cache[l].present => cache'[l] = cache[l]]_vars

\* A call served from the cache after the remote file has changed: it returns
\* the table of the first fetch, not the file's present content.
C4_Witness ==
    /\ outcome.source = "cache"
    /\ outcome.loader = "load_meat_data"
    /\ remote["load_meat_data"] = 2
    /\ fetches["load_meat_data"] = 1
    /\ outcome.value = Load("load_meat_data", RawCsv("load_meat_data", 1))
    /\ outcome.value # Load("load_meat_data", RawCsv("load_meat_data", 2))

-----------------------------------------------------------------------------
(* Meat Production / Agricultural Land Use: lines 70-196 *)

\* Bound: most rows of a loaded production or land-use table.
MaxRows == 4

\* Line 100 and line 182: the cutoff year of the land-use dataset.
YearFloor == 1600

\* Lines 79-82 and 90-93.
selected_countries(choice) ==
    IF choice = "Meat Production"
    THEN <<"United States", "Argentina", "Pakistan", "Germany", "India",
           "Brazil", "China", "Russia", "Mexico", "Spain">>
    ELSE <<"United States", "Argentina", "India", "Australia", "Brazil",
           "Kazakhstan", "China", "Russia", "Mexico", "Saudi Arabia">>

Range(q) == {q[i] : i \in 1..Len(q)}

\* The order of country names as pandas sorts them (strings, ascending).
Alphabetical ==
    <<"Argentina", "Australia", "Brazil", "China", "France", "Germany",
      "India", "Kazakhstan", "Mexico", "Pakistan", "Russia", "Saudi Arabia",
      "Spain", "United States">>

AlphaRank(country) == CHOOSE i \in 1..Len(Alphabetical) : Alphabetical[i] = country

\* Rows a remote production / land-use file may hold.  Value is the value
\* column (Meat_Production or Agricultural_Area) as pd.read_csv left it.
ViewPool ==
    << [Year |-> 1600, Country |-> "India",     Value |-> Num(7)],
       [Year |-> 1599, Country |-> "India",     Value |-> Str(<<"1", "2">>)],
       [Year |-> 1600, Country |-> "France",    Value |-> Num(3)],
       [Year |-> 1600, Country |-> "India",     Value |-> Str(<<"n", "/", "a">>)],
       [Year |-> 1601, Country |-> "China",     Value |-> Str(<<"n", "/", "a">>)],
       [Year |-> 1600, Country |-> "China",     Value |-> NaN],
       [Year |-> 1600, Country |-> "Germany",   Value |-> Num(4)],
       [Year |-> 1601, Country |-> "Australia", Value |-> Str(<<"5">>)],
       [Year |-> 1599, Country |-> "China",     Value |-> Num(2)] >>

SetMin(S) == CHOOSE x \in S : \A y \in S : x <= y

SetMax(S) == CHOOSE x \in S : \A y \in S : x >= y

RECURSIVE PickRows(_, _)
PickRows(pool, S) ==
    IF S = {} THEN <<>>
    ELSE <<pool[SetMin(S)]>> \o PickRows(pool, S \ {SetMin(S)})

\* The tables of at most n rows that keep some rows of a pool, in file order.
TablesOf(pool, n) ==
    {PickRows(pool, S) : S \in {T \in SUBSET (1..Len(pool)) : Cardinality(T) <= n}}

DigitValue(c) ==
    CASE c = "0" -> 0 [] c = "1" -> 1 [] c = "2" -> 2 [] c = "3" -> 3
      [] c = "4" -> 4 [] c = "5" -> 5 [] c = "6" -> 6 [] c = "7" -> 7
      [] c = "8" -> 8 [] c = "9" -> 9 [] OTHER -> -1

RECURSIVE ParseDigits(_, _)
ParseDigits(s, acc) ==
    IF s = <<>> THEN acc
    ELSE ParseDigits(Tail(s), 10 * acc + DigitValue(Head(s)))

IsNumeral(s) == s # <<>> /\ \A i \in 1..Len(s) : DigitValue(s[i]) >= 0

\* pd.to_numeric(..., errors="coerce") on one cell, lines 113, 115, 167, 183.
ToNumeric(c) ==
    CASE c.kind = "num" -> c
      [] c.kind = "str" -> IF IsNumeral(c.s) THEN Num(ParseDigits(c.s, 0)) ELSE NaN
      [] OTHER -> NaN

Coerce(t) == [i \in 1..Len(t) |-> [t[i] EXCEPT !.Value = ToNumeric(@)]]

\* Line 104 with the bug of comparing with >= instead of ==.
FilterFromYear(t, y) == SelectSeq(t, LAMBDA r : r.Year >= y)

\* Line 104: data[data["Year"] == year].
FilterYear(t, y) == SelectSeq(t, LAMBDA r : r.Year = y)

\* Line 105 (and the isin of lines 166, 182).
FilterCountries(t, selected) == SelectSeq(t, LAMBDA r : r.Country \in Range(selected))

\* get_country_coordinates(list) when the lookups of the names in missed
\* return None and no lookup raises.
get_country_coordinates(list, missed) ==
    [i \in 1..Len(list) |->
        CoordinateRow(list[i],
                      IF list[i] \in missed THEN NoLocation ELSE Location(list[i]))]

WithCoordinates(row, lat, lon) ==
    [Year |-> row.Year, Country |-> row.Country, Value |-> row.Value,
     Latitude |-> lat, Longitude |-> lon]

RECURSIVE MergeLeft(_, _)
\* Line 109: pd.merge(left, right, on="Country", how="left").
MergeLeft(left, right) ==
    IF left = <<>> THEN <<>>
    ELSE LET row == Head(left)
             matches == SelectSeq(right, LAMBDA c : c.Country = row.Country)
             joined ==
                 IF matches = <<>>
                 THEN <<WithCoordinates(row, NaN, NaN)>>
                 ELSE [i \in 1..Len(matches) |->
                          WithCoordinates(row, matches[i].Latitude,
                                          matches[i].Longitude)]
         IN  joined \o MergeLeft(Tail(left), right)

\* Line 118 with the bug of dropping nothing.
KeepNaCoordinates(t) == t

\* Line 118: dropna(subset=["Latitude", "Longitude"]).
DropNaCoordinates(t) ==
    SelectSeq(t, LAMBDA r : ~IsNaN(r.Latitude) /\ ~IsNaN(r.Longitude))

\* Lines 104-118: the table prepared for the map.
FilteredData(choice, t, y, coords) ==
    DropNaCoordinates(
        Coerce(MergeLeft(FilterCountries(FilterYear(t, y), selected_countries(choice)),
                         coords)))

KeyOf(r) == <<r.Year, r.Country>>

KeyBefore(a, b) ==
    \/ a[1] < b[1]
    \/ a[1] = b[1] /\ AlphaRank(a[2]) <= AlphaRank(b[2])

RECURSIVE SortKeys(_)
\* groupby(...) sorts the group keys (sort=True is the default).
SortKeys(S) ==
    IF S = {} THEN <<>>
    ELSE LET first == CHOOSE a \in S : \A b \in S : KeyBefore(a, b)
         IN  <<first>> \o SortKeys(S \ {first})

RECURSIVE SumNumbers(_)
\* Series.sum() of a group: NaN is skipped, the sum of nothing is 0.
SumNumbers(t) ==
    IF t = <<>> THEN 0
    ELSE (IF Head(t).Value.kind = "num" THEN Head(t).Value.n ELSE 0)
         + SumNumbers(Tail(t))

\* Lines 168, 184 with the bug of not merging the rows of a group.
GroupKeepRows(t) ==
    LET keys == SortKeys({KeyOf(t[i]) : i \in 1..Len(t)})
        RECURSIVE Rows(_)
        Rows(k) ==
            IF k > Len(keys) THEN <<>>
            ELSE SelectSeq(t, LAMBDA r : KeyOf(r) = keys[k]) \o Rows(k + 1)
    IN  Rows(1)

\* Lines 168, 184: groupby(["Year", "Country"])[value].sum().reset_index().
GroupSum(t) ==
    LET keys == SortKeys({KeyOf(t[i]) : i \in 1..Len(t)})
    IN  [k \in 1..Len(keys) |->
            [Year |-> keys[k][1], Country |-> keys[k][2],
             Value |-> Num(SumNumbers(SelectSeq(t, LAMBDA r : KeyOf(r) = keys[k])))]]

\* Line 182 with the bug of leaving out the Year >= 1600 condition.
LineRowsAnyYear(choice, t) == FilterCountries(t, selected_countries(choice))

\* Lines 166 and 182: the rows of the line chart before aggregation.
LineRows(choice, t) ==
    IF choice = "Meat Production"
    THEN FilterCountries(t, selected_countries(choice))
    ELSE FilterCountries(SelectSeq(t, LAMBDA r : r.Year >= YearFloor),
                         selected_countries(choice))

\* Lines 166-168 and 182-184.
LineGraphData(choice, t) == GroupSum(Coerce(LineRows(choice, t)))

Years(t) == {t[i].Year : i \in 1..Len(t)}

\* Lines 96-102: the slider can be built when the table has a minimum and a
\* maximum year and, for the land-use dataset, the default 1600 lies between
\* them; otherwise int(nan) or st.slider raises.
SliderOk(choice, t) ==
    /\ t # <<>>
    /\ choice = "Agricultural Land Use" =>
          SetMin(Years(t)) <= YearFloor /\ YearFloor <= SetMax(Years(t))

\* Names whose lookup may come back empty during a render cycle.
Unreliable == {"India", "China"}

\* The lookups are made only when st.cache_resource holds no table yet.
MissChoices == IF geo_pc = "returned" THEN {{}} ELSE SUBSET Unreliable

\* Line 96: the years the slider offers.
SliderYears(t) == IF t = <<>> THEN {} ELSE SetMin(Years(t))..SetMax(Years(t))

\* Line 108 through st.cache_resource: the table of an earlier call with the
\* same list is returned again; otherwise the lookups are made, and the names
\* in missed are not found.
CoordinatesFor(choice, missed) ==
    IF geo_pc = "returned" THEN coordinates
    ELSE get_country_coordinates(selected_countries(choice), missed)

\* A render cycle with visualization type Map: lines 96-118 and 126-162.
RenderMap(y, missed) ==
    /\ SliderOk(dataset_choice, data)
    /\ y \in SliderYears(data)
    /\ year' = y
    /\ visualization_choice' = "Map"
    /\ country_list' = selected_countries(dataset_choice)
    /\ coordinates' = CoordinatesFor(dataset_choice, missed)
    /\ idx' = Len(country_list')
    /\ geo_pc' = "returned"
    /\ filtered_data' = FilteredData(dataset_choice, data, y, coordinates')
    /\ layer_data' = filtered_data'
    /\ line_graph_data' = NoTable
    /\ render_pc' = "rendered"
    /\ UNCHANGED <<dataset_choice, data, top_5, top_10_countries>>

\* A render cycle with visualization type Line Graph: lines 96-118, 164-196.
RenderLineGraph(y, missed) ==
    /\ SliderOk(dataset_choice, data)
    /\ y \in SliderYears(data)
    /\ year' = y
    /\ visualization_choice' = "Line Graph"
    /\ country_list' = selected_countries(dataset_choice)
    /\ coordinates' = CoordinatesFor(dataset_choice, missed)
    /\ idx' = Len(country_list')
    /\ geo_pc' = "returned"
    /\ filtered_data' = FilteredData(dataset_choice, data, y, coordinates')
    /\ layer_data' = NoTable
    /\ line_graph_data' = LineGraphData(dataset_choice, data)
    /\ render_pc' = "rendered"
    /\ UNCHANGED <<dataset_choice, data, top_5, top_10_countries>>

\* A render cycle that ends at the slider: the script run stops with an
\* exception before anything is filtered.
RenderSliderError ==
    /\ ~SliderOk(dataset_choice, data)
    /\ render_pc' = "error"
    /\ filtered_data' = NoTable
    /\ layer_data' = NoTable
    /\ line_graph_data' = NoTable
    /\ UNCHANGED <<dataset_choice, data, year, visualization_choice, top_5,
                   top_10_countries, geoVars>>

\* A render cycle in which a lookup of line 53 raises: the exception leaves
\* get_country_coordinates and ends the script run at line 108; nothing is
\* stored by st.cache_resource.
RenderGeocodeError(y) ==
    /\ SliderOk(dataset_choice, data)
    /\ y \in SliderYears(data)
    /\ geo_pc # "returned"
    /\ year' = y
    /\ country_list' = selected_countries(dataset_choice)
    /\ geo_pc' = "raised"
    /\ render_pc' = "error"
    /\ filtered_data' = NoTable
    /\ layer_data' = NoTable
    /\ line_graph_data' = NoTable
    /\ UNCHANGED <<dataset_choice, data, visualization_choice, top_5,
                   top_10_countries, idx, coordinates>>

InitView ==
    /\ dataset_choice \in {"Meat Production", "Agricultural Land Use"}
    /\ data \in TablesOf(ViewPool, MaxRows)
    /\ year = 0
    /\ visualization_choice = "none"
    /\ filtered_data = NoTable
    /\ layer_data = NoTable
    /\ line_graph_data = NoTable
    /\ top_5 = NoTable
    /\ top_10_countries = NoTable
    /\ render_pc = "idle"
    /\ GeoIdle
    /\ CacheIdle

NextView ==
    \/ \E y \in SliderYears(data), missed \in MissChoices :
          RenderMap(y, missed) /\ UNCHANGED cacheVars
    \/ \E y \in SliderYears(data), missed \in MissChoices :
          RenderLineGraph(y, missed) /\ UNCHANGED cacheVars
    \/ RenderSliderError /\ UNCHANGED cacheVars
    \/ \E y \in SliderYears(data) : RenderGeocodeError(y) /\ UNCHANGED cacheVars

SpecView == InitView /\ [][NextView]_vars

Rendered == render_pc = "rendered"

\* C1: every row of the filtered table of a render cycle has Year equal to
\* the selected year and Country in the country-of-interest list of the chosen
\* dataset, after the merge, the coercion and the dropna.
C1_FilteredRowsMatch ==
    Rendered =>
        \A i \in 1..Len(filtered_data) :
            /\ filtered_data[i].Year = year
            /\ filtered_data[i].Country \in Range(selected_countries(dataset_choice))

\* A filtered table with a row, built from a table that also holds a row of
\* another year and a row of a country outside the list.
C1_Witness ==
    /\ Rendered
    /\ Len(filtered_data) >= 1
    /\ \E i \in 1..Len(data) : data[i].Year # year
    /\ \E i \in 1..Len(data) :
          /\ data[i].Year = year
          /\ data[i].Country \notin Range(selected_countries(dataset_choice))

\* C7: with Agricultural Land Use and year 1600, no row with Year < 1600 is in
\* the table of the map nor in the table of the line chart.
C7_NoRowBeforeFloor ==
    (Rendered /\ dataset_choice = "Agricultural Land Use" /\ year = YearFloor) =>
        /\ \A i \in 1..Len(filtered_data) : filtered_data[i].Year >= YearFloor
        /\ \A i \in 1..Len(layer_data) : layer_data[i].Year >= YearFloor
        /\ \A i \in 1..Len(line_graph_data) : line_graph_data[i].Year >= YearFloor

\* A land-use line chart at year 1600 with a row, from a table that holds a
\* row before 1600 of a country of the list.
C7_Witness ==
    /\ Rendered
    /\ dataset_choice = "Agricultural Land Use"
    /\ year = YearFloor
    /\ visualization_choice = "Line Graph"
    /\ Len(line_graph_data) >= 1
    /\ \E i \in 1..Len(data) :
          /\ data[i].Year < YearFloor
          /\ data[i].Country \in Range(selected_countries(dataset_choice))

\* The raw cells of the group (y, c) of the line chart.
GroupCells(y, c) ==
    SelectSeq(LineRows(dataset_choice, data),
              LAMBDA r : r.Year = y /\ r.Country = c)

Parseable(c) == c.kind = "num" \/ (c.kind = "str" /\ IsNumeral(c.s))

\* C8: a cell holding a non-numeric string becomes a missing value, never
\* zero, in the coerced column of the map table; and in the line chart the
\* value of a group is the sum of its parseable cells, a group none of whose
\* cells is parseable not being presented as the number 0.
C8_MissingNeverZero ==
    Rendered =>
        /\ \A k \in 1..Len(coordinates) :
              LET c == coordinates[k].Country
                  qualifying == SelectSeq(data, LAMBDA r : r.Year = year /\ r.Country = c)
                  shown == SelectSeq(layer_data, LAMBDA r : r.Country = c)
              IN  Len(shown) = Len(qualifying) =>
                     \A i \in 1..Len(shown) :
                        ~Parseable(qualifying[i].Value) => IsNaN(shown[i].Value)
        /\ \A i \in 1..Len(line_graph_data) :
              LET g == line_graph_data[i]
                  cells == GroupCells(g.Year, g.Country)
              IN  IF \E k \in 1..Len(cells) : Parseable(cells[k].Value)
                  THEN g.Value = Num(SumNumbers(Coerce(cells)))
                  ELSE g.Value # Num(0)

\* The part of C8 the code keeps: unparseable cells are missing in the map
\* table, and a group of the line chart sums its parseable cells only.
C8_CoercedAndSkipped ==
    Rendered =>
        /\ \A k \in 1..Len(coordinates) :
              LET c == coordinates[k].Country
                  qualifying == SelectSeq(data, LAMBDA r : r.Year = year /\ r.Country = c)
                  shown == SelectSeq(layer_data, LAMBDA r : r.Country = c)
              IN  Len(shown) = Len(qualifying) =>
                     \A i \in 1..Len(shown) :
                        ~Parseable(qualifying[i].Value) => IsNaN(shown[i].Value)
        /\ \A i \in 1..Len(line_graph_data) :
              LET g == line_graph_data[i]
                  cells == GroupCells(g.Year, g.Country)
                  RECURSIVE Total(_)
                  Total(q) ==
                      IF q = <<>> THEN 0
                      ELSE (IF Head(q).Value.kind = "num" THEN Head(q).Value.n
                            ELSE IF Parseable(Head(q).Value)
                                 THEN ParseDigits(Head(q).Value.s, 0) ELSE 0)
                           + Total(Tail(q))
              IN  g.Value = Num(Total(cells))

C10_AggregationIdempotent ==
    (Rendered /\ visualization_choice = "Line Graph") =>
        /\ GroupSum(line_graph_data) = line_graph_data
        /\ \A i, j \in 1..Len(line_graph_data) :
              KeyOf(line_graph_data[i]) = KeyOf(line_graph_data[j]) => i = j
        /\ {KeyOf(line_graph_data[i]) : i \in 1..Len(line_graph_data)}
              = {KeyOf(r) : r \in Range(LineRows(dataset_choice, data))}

\* A line chart whose aggregation merged two rows of one (Year, Country) pair
\* and reordered the groups.
C10_Witness ==
    /\ Rendered
    /\ visualization_choice = "Line Graph"
    /\ Len(line_graph_data) >= 2
    /\ Len(line_graph_data) < Len(LineRows(dataset_choice, data))
    /\ KeyOf(line_graph_data[1]) # KeyOf(LineRows(dataset_choice, data)[1])

-----------------------------------------------------------------------------
(* Meat Consumption (lines 198-210) and Obesity (lines 212-240) *)

\* Bound: most rows of a loaded consumption or obesity table.
MaxFileRows == 13

\* Line 205: nlargest(10, ...).
HistogramRows == 10

\* Line 229: head(10).
TopCountries == 10

\* The order of a value column: a missing value ranks below every number.
OrdKey(c) == IF c.kind = "num" THEN c.n ELSE -1

\* Rows a remote consumption file may hold; Value is Kilograms/capita.
ConsumptionPool ==
    << [Country |-> "Argentina", Value |-> Num(47)],
       [Country |-> "Zimbabwe",  Value |-> Num(41)],
       [Country |-> "Brazil",    Value |-> Num(35)],
       [Country |-> "Israel",    Value |-> Num(25)],
       [Country |-> "Chile",     Value |-> Num(27)],
       [Country |-> "Argentina", Value |-> Num(46)],
       [Country |-> "Uruguay",   Value |-> Num(41)],
       [Country |-> "Canada",    Value |-> Num(24)],
       [Country |-> "Paraguay",  Value |-> Num(26)],
       [Country |-> "Norway",    Value |-> Num(20)],
       [Country |-> "Mexico",    Value |-> Num(15)],
       [Country |-> "India",     Value |-> Num(1)] >>

RECURSIVE NLargest(_, _)
\* Line 205: DataFrame.nlargest(n, column) with keep="first": the n rows with
\* the largest values in descending order, equal values in file order.
NLargest(n, t) ==
    IF n = 0 \/ t = <<>> THEN <<>>
    ELSE LET best == SetMax({OrdKey(t[i].Value) : i \in 1..Len(t)})
             at == SetMin({i \in 1..Len(t) : OrdKey(t[i].Value) = best})
             rest == [i \in 1..(Len(t) - 1) |-> IF i < at THEN t[i] ELSE t[i + 1]]
         IN  <<t[at]>> \o NLargest(n - 1, rest)

\* A render cycle with Meat Consumption chosen: lines 198-210.
RenderHistogram ==
    /\ dataset_choice = "Meat Consumption"
    /\ top_5' = NLargest(HistogramRows, data)
    /\ render_pc' = "rendered"
    /\ UNCHANGED <<dataset_choice, data, year, visualization_choice,
                   filtered_data, layer_data, line_graph_data, top_10_countries>>

InitHistogram ==
    /\ dataset_choice = "Meat Consumption"
    /\ data \in TablesOf(ConsumptionPool, MaxFileRows)
    /\ year = 0
    /\ visualization_choice = "none"
    /\ filtered_data = NoTable
    /\ layer_data = NoTable
    /\ line_graph_data = NoTable
    /\ top_5 = NoTable
    /\ top_10_countries = NoTable
    /\ render_pc = "idle"
    /\ GeoIdle
    /\ CacheIdle

NextHistogram == RenderHistogram /\ UNCHANGED <<geoVars, cacheVars>>

SpecHistogram == InitHistogram /\ [][NextHistogram]_vars

\* The part of C6 that nlargest gives: at most 10 rows, in descending order,
\* no row left out having a larger value than a row kept.
C6_TopRows ==
    Rendered =>
        /\ Len(top_5) = Min2(HistogramRows, Len(data))
        /\ \A i \in 1..(Len(top_5) - 1) :
              OrdKey(top_5[i].Value) >= OrdKey(top_5[i + 1].Value)
        /\ \A v \in {OrdKey(data[i].Value) : i \in 1..Len(data)} :
              LET inData == Cardinality({i \in 1..Len(data) : OrdKey(data[i].Value) = v})
                  inTop == Cardinality({i \in 1..Len(top_5) : OrdKey(top_5[i].Value) = v})
              IN  /\ inTop <= inData
                  /\ inTop < inData =>
                        \A i \in 1..Len(top_5) : OrdKey(top_5[i].Value) >= v
        /\ \A i \in 1..Len(top_5) : top_5[i] \in Range(data)

\* C6: the table handed to the histogram has at most 10 rows, in descending
\* order of Kilograms/capita, the rows with the largest values of the loaded
\* table, and no country appears in more than one of them.
C6_TopTenDistinctCountries ==
    /\ C6_TopRows
    /\ Rendered =>
          \A i, j \in 1..Len(top_5) : top_5[i].Country = top_5[j].Country => i = j

\* Line 225.
continents ==
    {"World", "Asia", "Africa", "Europe", "North America", "South America",
     "Oceania", "Antarctica", "Asia (excl. China and India)",
     "Europe (excl. Russia)", "South America (excl. Brazil)"}

\* Rows a remote obesity file may hold; Value is the Obesity column.
ObesityPool ==
    << [Country |-> "Nauru",  Year |-> 2016, Value |-> Num(61)],
       [Country |-> "World",  Year |-> 2016, Value |-> Num(70)],
       [Country |-> "Palau",  Year |-> 2016, Value |-> Num(55)],
       [Country |-> "Japan",  Year |-> 2016, Value |-> Num(4)],
       [Country |-> "Tonga",  Year |-> 2016, Value |-> Num(48)],
       [Country |-> "Samoa",  Year |-> 2016, Value |-> Num(47)],
       [Country |-> "Kuwait", Year |-> 2016, Value |-> Num(38)],
       [Country |-> "Tonga",  Year |-> 2015, Value |-> Num(90)],
       [Country |-> "Fiji",   Year |-> 2016, Value |-> Num(30)],
       [Country |-> "Qatar",  Year |-> 2016, Value |-> Num(38)],
       [Country |-> "Libya",  Year |-> 2016, Value |-> NaN],
       [Country |-> "Egypt",  Year |-> 2016, Value |-> Num(32)],
       [Country |-> "Samoa",  Year |-> 2016, Value |-> Num(50)],
       [Country |-> "Chile",  Year |-> 2016, Value |-> Num(28)],
       [Country |-> "Spain",  Year |-> 2016, Value |-> Num(24)] >>

\* Lines 222-223: the rows of the most recent year.
RecentRows(t) ==
    IF t = <<>> THEN <<>>
    ELSE LET recent_year == SetMax(Years(t))
         IN  SelectSeq(t, LAMBDA r : r.Year = recent_year)

\* Line 227 with the bug of keeping the continent rows.
KeepContinentRows(t) == t

\* Line 227: recent_data[~recent_data['Country'].isin(continents)].
ExcludeContinents(t) == SelectSeq(t, LAMBDA r : r.Country \notin continents)

RECURSIVE SortedHeads(_, _, _)
\* Line 229: sort_values(by=['Obesity'], ascending=False)['Country'].head(n).
\* The default sort is not stable, so rows with equal values may come in any
\* order; missing values come last.  S is the set of rows not yet placed.
SortedHeads(t, S, n) ==
    IF n = 0 \/ S = {} THEN {<<>>}
    ELSE LET best == SetMax({OrdKey(t[i].Value) : i \in S})
         IN  UNION {{<<t[i].Country>> \o h : h \in SortedHeads(t, S \ {i}, n - 1)} :
                       i \in {j \in S : OrdKey(t[j].Value) = best}}

\* Lines 222-229: the lists top_10_countries can be.
TopTenLists(t) ==
    LET recent_data == ExcludeContinents(RecentRows(t))
    IN  SortedHeads(recent_data, 1..Len(recent_data), TopCountries)

\* A render cycle with Obesity chosen: lines 212-240.
RenderObesity ==
    /\ dataset_choice = "Obesity"
    /\ top_10_countries' \in TopTenLists(data)
    /\ render_pc' = "rendered"
    /\ UNCHANGED <<dataset_choice, data, year, visualization_choice,
                   filtered_data, layer_data, line_graph_data, top_5>>

InitObesity ==
    /\ dataset_choice = "Obesity"
    /\ data \in TablesOf(ObesityPool, MaxFileRows)
    /\ year = 0
    /\ visualization_choice = "none"
    /\ filtered_data = NoTable
    /\ layer_data = NoTable
    /\ line_graph_data = NoTable
    /\ top_5 = NoTable
    /\ top_10_countries = NoTable
    /\ render_pc = "idle"
    /\ GeoIdle
    /\ CacheIdle

NextObesity == RenderObesity /\ UNCHANGED <<geoVars, cacheVars>>

SpecObesity == InitObesity /\ [][NextObesity]_vars

\* The rows the obesity claim ranks: most recent year, continents excluded.
Candidates ==
    IF data = <<>> THEN <<>>
    ELSE LET recent_year == SetMax(Years(data))
         IN  SelectSeq(data, LAMBDA r : r.Year = recent_year /\ r.Country \notin continents)

\* The i-th largest of the values keys (a sequence).
ValueAt(keys, i) ==
    CHOOSE v \in Range(keys) :
        /\ Cardinality({j \in 1..Len(keys) : keys[j] > v}) < i
        /\ Cardinality({j \in 1..Len(keys) : keys[j] >= v}) >= i

\* top_10_countries names the rows with the largest values, in descending
\* order: its i-th name is the country of a candidate row holding the i-th
\* largest value, no row being used twice.
NamesTopRows ==
    LET cand == Candidates
        keys == [j \in 1..Len(cand) |-> OrdKey(cand[j].Value)]
        top == top_10_countries
    IN  /\ Len(top) <= Len(cand)
        /\ LET ranked == [i \in 1..Len(top) |-> ValueAt(keys, i)]
           IN  \A i \in 1..Len(top) :
                 /\ top[i] \notin continents
                 /\ Cardinality({j \in 1..Len(top) :
                                    top[j] = top[i] /\ ranked[j] = ranked[i]})
                       <= Cardinality({j \in 1..Len(cand) :
                                          /\ cand[j].Country = top[i]
                                          /\ keys[j] = ranked[i]})

====
